---------------------------- MODULE Spec2Model ----------------------------
(***************************************************************************)
(* A model of svo-rs: the sparse voxel octree of src/src/node.rs (Node)    *)
(* and its facade src/src/octree.rs (Octree).                              *)
(*                                                                         *)
(* Encodings.                                                              *)
(*   Vector3<u32>        a triple <<x, y, z>>                              *)
(*   Option<X>           the empty sequence <<>> (None) or <<x>> (Some)    *)
(*   NodeType<T>         [tag |-> "Leaf", data |-> <<v>>] or               *)
(*                       [tag |-> "Internal", data |-> <<>>]               *)
(*   Node<T>             [ty, min_position, dimension, children], where    *)
(*                       children maps 0..7 to Option<Node>                *)
(*   u32                 an integer; the one field that can wrap           *)
(*                       (curr_lod_level) is kept in two's complement, so  *)
(*                       that u32::MAX is -1 (see the U* operators)        *)
(***************************************************************************)
EXTENDS Integers, Sequences, FiniteSets, TLC

VARIABLES
    status,           \* "none" before Octree::new, "ok" an Octree exists,
                      \* "err" Octree::new returned Err, "panic" a call panicked
    overflow_checks,  \* the build: TRUE = overflow checks on (debug profile)
    auto_simplify,    \* Octree.auto_simplify
    dimension,        \* Octree.dimension
    curr_lod_level,   \* Octree.curr_lod_level (u32, two's complement)
    max_lod_level,    \* Octree.max_lod_level
    min_dimension,    \* Octree.min_dimension
    root,             \* Octree.root
    last,             \* the last call: [op, pos, data, ret]; for lod_down, data
                      \* counts the nodes of 8 Leaf children that lod() ran on
    written,          \* history, kept when written.on: the value each position
                      \* last received from insert and still holds
    de_nodes,         \* Node::deserialize: all_nodes
    de_stack,         \* Node::deserialize: stack
    de_pc,            \* Node::deserialize: "idle", "loop", "done", "panic"
    de_input,         \* the record list Node::deserialize was called with
    de_result         \* Option<Node>: what Node::deserialize returned

vars == <<status, overflow_checks, auto_simplify, dimension, curr_lod_level,
          max_lod_level, min_dimension, root, last, written,
          de_nodes, de_stack, de_pc, de_input, de_result>>

octreeVars == <<status, overflow_checks, auto_simplify, dimension,
                curr_lod_level, max_lod_level, min_dimension, root>>

codecVars == <<de_nodes, de_stack, de_pc, de_input, de_result>>

-----------------------------------------------------------------------------
(* Bounds of the model *)

\* domain dimensions offered to Octree::new: 1 .. 2^MaxDimLog
MaxDimLog == 2

\* T::default()
Default == 0

\* the values of T the calls pass: the default and one other
Values == {Default, 1}

RECURSIVE Pow2(_)
Pow2(k) == IF k = 0 THEN 1 ELSE 2 * Pow2(k - 1)

MaxDim == Pow2(MaxDimLog)

\* the arguments offered to Octree::new in the main specification
DimArgs == 1..MaxDim

\* the positions offered to insert, clear_at and get: two cells that a domain
\* of dimension 4 or more keeps in different octants of one node, the second
\* outside a domain of dimension 1 or 2; and one outside every domain
Points == { <<0, 0, 0>>, <<0, 2, 0>>, <<0, 0, MaxDim>> }

\* every position of a domain of dimension d
DomainPoints(d) == {<<x, y, z>> : x \in 0..(d - 1), y \in 0..(d - 1), z \in 0..(d - 1)}

-----------------------------------------------------------------------------
(* node.rs: Octant *)

OCTREE_CHILDREN == 8

Octants == 0..(OCTREE_CHILDREN - 1)

\* Octant::offset
Offset(octant) ==
    CASE octant = 0 -> <<0, 0, 0>>
      [] octant = 1 -> <<1, 0, 0>>
      [] octant = 2 -> <<0, 0, 1>>
      [] octant = 3 -> <<1, 0, 1>>
      [] octant = 4 -> <<0, 1, 0>>
      [] octant = 5 -> <<1, 1, 0>>
      [] octant = 6 -> <<0, 1, 1>>
      [] octant = 7 -> <<1, 1, 1>>

\* Octant::vector_diff with the y and z tests exchanged
VectorDiffZHigh(rhs, lhs) ==
    IF lhs[2] < rhs[2]
    THEN IF lhs[3] < rhs[3]
         THEN (IF lhs[1] < rhs[1] THEN 0 ELSE 1)
         ELSE (IF lhs[1] < rhs[1] THEN 4 ELSE 5)
    ELSE IF lhs[3] < rhs[3]
         THEN (IF lhs[1] < rhs[1] THEN 2 ELSE 3)
         ELSE (IF lhs[1] < rhs[1] THEN 6 ELSE 7)

\* Octant::vector_diff(rhs, lhs) as usize
VectorDiff(rhs, lhs) ==
    IF lhs[3] < rhs[3]
    THEN IF lhs[2] < rhs[2]
         THEN (IF lhs[1] < rhs[1] THEN 0 ELSE 1)
         ELSE (IF lhs[1] < rhs[1] THEN 4 ELSE 5)
    ELSE IF lhs[2] < rhs[2]
         THEN (IF lhs[1] < rhs[1] THEN 2 ELSE 3)
         ELSE (IF lhs[1] < rhs[1] THEN 6 ELSE 7)

-----------------------------------------------------------------------------
(* vector.rs *)

\* Vector3::add
VAdd(a, b) == <<a[1] + b[1], a[2] + b[2], a[3] + b[3]>>

\* Vector3::component_mul
ComponentMul(a, b) == <<a[1] * b[1], a[2] * b[2], a[3] * b[3]>>

-----------------------------------------------------------------------------
(* node.rs: NodeType and Node *)

Leaf(v) == [tag |-> "Leaf", data |-> <<v>>]

Internal == [tag |-> "Internal", data |-> <<>>]

NoChildren == [i \in Octants |-> <<>>]

\* Node::new without the Leaf(default) type
NewNodeInternal(min_position, dim) ==
    [ty |-> Internal, min_position |-> min_position,
     dimension |-> dim, children |-> NoChildren]

\* Node::new
NewNode(min_position, dim) ==
    [ty |-> Leaf(Default), min_position |-> min_position,
     dimension |-> dim, children |-> NoChildren]

\* Node::is_leaf
IsLeaf(self) == self.ty.tag = "Leaf"

\* Node::leaf_data
LeafData(self) == self.ty.data

\* Node::contains with the upper bound of each axis included
ContainsInclusive(self, position) ==
    /\ position[1] >= self.min_position[1]
    /\ position[1] <= self.min_position[1] + self.dimension
    /\ position[2] >= self.min_position[2]
    /\ position[2] <= self.min_position[2] + self.dimension
    /\ position[3] >= self.min_position[3]
    /\ position[3] <= self.min_position[3] + self.dimension

\* Node::contains
Contains(self, position) ==
    /\ position[1] >= self.min_position[1]
    /\ position[1] < self.min_position[1] + self.dimension
    /\ position[2] >= self.min_position[2]
    /\ position[2] < self.min_position[2] + self.dimension
    /\ position[3] >= self.min_position[3]
    /\ position[3] < self.min_position[3] + self.dimension

\* Node::child_info, for a position the node contains
ChildInfo(self, position) ==
    LET dim == self.dimension \div 2
        dimension_3d == <<dim, dim, dim>>
        midpoint == VAdd(self.min_position, dimension_3d)
    IN  [dimension |-> dim, dimension_3d |-> dimension_3d,
         octant |-> VectorDiff(midpoint, position)]

\* Node::child_min_position
ChildMinPosition(self, dimension_3d, octant) ==
    VAdd(self.min_position, ComponentMul(dimension_3d, Offset(octant)))

\* Node::child_count
ChildCount(self) == Cardinality({i \in Octants : self.children[i] # <<>>})

\* Node::simplify without the comparison of the children's data
SimplifyIgnoringData(self) ==
    IF /\ \A i \in Octants : self.children[i] # <<>>
       /\ \A i \in Octants : IsLeaf(self.children[i][1])
    THEN [ret |-> TRUE,
          node |-> [self EXCEPT !.ty = Leaf(LeafData(self.children[OCTREE_CHILDREN - 1][1])[1]),
                                !.children = NoChildren]]
    ELSE [ret |-> FALSE, node |-> self]

\* the for loop of Node::simplify from slot i on, `data` the Option that holds
\* the value of the first child once it was read, and the two statements after
\* the loop: [ret, node]
RECURSIVE SimplifyScan(_, _, _)
SimplifyScan(self, i, data) ==
    IF i = OCTREE_CHILDREN
    THEN [ret |-> TRUE,
          node |-> [self EXCEPT !.ty = Leaf(data[1]), !.children = NoChildren]]
    ELSE IF self.children[i] = <<>> THEN [ret |-> FALSE, node |-> self]
    ELSE IF ~IsLeaf(self.children[i][1]) THEN [ret |-> FALSE, node |-> self]
    ELSE IF data = <<>> THEN SimplifyScan(self, i + 1, LeafData(self.children[i][1]))
    ELSE IF data # LeafData(self.children[i][1]) THEN [ret |-> FALSE, node |-> self]
    ELSE SimplifyScan(self, i + 1, data)

\* Node::simplify with the children left in their slots
SimplifyKeepingChildren(self) ==
    LET r == SimplifyScan(self, 0, <<>>)
    IN  [ret |-> r.ret, node |-> [r.node EXCEPT !.children = self.children]]

\* Node::simplify: [ret, node]
Simplify(self) == SimplifyScan(self, 0, <<>>)

\* the first empty child slot, OCTREE_CHILDREN when there is none
FirstAbsent(self) ==
    IF \E i \in Octants : self.children[i] = <<>>
    THEN CHOOSE i \in Octants :
            /\ self.children[i] = <<>>
            /\ \A j \in 0..(i - 1) : self.children[j] # <<>>
    ELSE OCTREE_CHILDREN

RECURSIVE SimplifyRecursive(_)

\* Node::simplify_recursive with simplify() tried on the node before its
\* children are visited
SimplifyRecursiveTopDown(self) ==
    LET first == Simplify(self)
        stop == FirstAbsent(self)
        visit(i) == IF IsLeaf(self.children[i][1])
                    THEN self.children[i][1]
                    ELSE SimplifyRecursive(self.children[i][1]).node
        kids == [i \in Octants |->
                    IF i < stop THEN <<visit(i)>> ELSE self.children[i]]
    IN  IF first.ret THEN first
        ELSE [ret |-> FALSE, node |-> [self EXCEPT !.children = kids]]

\* Node::simplify_recursive: [ret, node]
SimplifyRecursive(self) ==
    LET stop == FirstAbsent(self)
        \* the loop visits slots 0 .. stop-1 and returns at slot stop
        visit(i) == IF IsLeaf(self.children[i][1])
                    THEN [ret |-> TRUE, node |-> self.children[i][1]]
                    ELSE SimplifyRecursive(self.children[i][1])
        kids == [i \in Octants |->
                    IF i < stop THEN <<visit(i).node>> ELSE self.children[i]]
        leaf_children == Cardinality({i \in Octants : i < stop /\ visit(i).ret})
        looped == [self EXCEPT !.children = kids]
    IN  IF stop < OCTREE_CHILDREN THEN [ret |-> FALSE, node |-> looped]
        ELSE IF leaf_children = OCTREE_CHILDREN THEN Simplify(looped)
        ELSE [ret |-> FALSE, node |-> looped]

\* Node::insert: [res, node]; res is "Ok", "Err" or "Panic" (an unwrap of Err)
RECURSIVE Insert(_, _, _, _, _)
Insert(self, position, min_dim, do_simplify, data) ==
    IF ~Contains(self, position) THEN [res |-> "Err", node |-> self]
    ELSE IF self.dimension = min_dim
    THEN [res |-> "Ok", node |-> [self EXCEPT !.ty = Leaf(data)]]
    ELSE
      LET info == ChildInfo(self, position)
          octant == info.octant
          split == IsLeaf(self) /\ info.dimension = min_dim
          sibling(i) ==
              [NewNode(ChildMinPosition(self, info.dimension_3d, i), info.dimension)
                  EXCEPT !.ty = Leaf(LeafData(self)[1])]
          kids == IF split
                  THEN [i \in Octants |->
                          IF i # octant THEN <<sibling(i)>> ELSE self.children[i]]
                  ELSE self.children
          target == IF kids[octant] # <<>>
                    THEN kids[octant][1]
                    ELSE NewNode(ChildMinPosition(self, info.dimension_3d, octant),
                                 info.dimension)
          sub == Insert(target, position, min_dim, do_simplify, data)
          written_node == [self EXCEPT !.children = [kids EXCEPT ![octant] = <<sub.node>>],
                                       !.ty = Internal]
      IN  IF sub.res # "Ok"
          THEN [res |-> "Panic", node |-> [self EXCEPT !.children = kids]]
          ELSE [res |-> "Ok",
                node |-> IF do_simplify THEN Simplify(written_node).node
                         ELSE written_node]

\* Node::clear: [res, node]
RECURSIVE Clear(_, _, _)
Clear(self, position, min_dim) ==
    IF ~Contains(self, position) THEN [res |-> "Err", node |-> self]
    ELSE
      LET info == ChildInfo(self, position)
          octant == info.octant
      IN  IF IsLeaf(self) /\ info.dimension = min_dim
          THEN [res |-> "Ok", node |-> [self EXCEPT !.children = NoChildren]]
          ELSE IF self.children[octant] # <<>>
          THEN LET sub == Clear(self.children[octant][1], position, min_dim)
                   child == [sub.node EXCEPT !.ty =
                                IF IsLeaf(self) \/ info.dimension = min_dim
                                THEN Leaf(Default) ELSE Internal]
               IN  IF sub.res # "Ok"
                   THEN [res |-> "Panic", node |-> self]
                   ELSE [res |-> "Ok",
                         node |-> [self EXCEPT !.children[octant] = <<child>>]]
          ELSE [res |-> "Ok", node |-> self]

\* Node::get: Option<T>
RECURSIVE Get(_, _)
Get(self, position) ==
    IF ~Contains(self, position) THEN <<>>
    ELSE IF IsLeaf(self) THEN LeafData(self)
    ELSE LET octant == ChildInfo(self, position).octant
         IN  IF self.children[octant] # <<>>
             THEN Get(self.children[octant][1], position)
             ELSE <<>>

\* the children after the loop of Node::lod has visited slots 0 .. i-1, none
\* of them empty: a Leaf child is left alone, lod() runs on an Internal one
RECURSIVE LodSet(_)
RECURSIVE LodVisited(_, _)
LodVisited(self, i) ==
    IF i = 0 THEN {self.children}
    ELSE LET before == LodVisited(self, i - 1)
             c == self.children[i - 1][1]
         IN  IF IsLeaf(c) THEN before
             ELSE {[kids EXCEPT ![i - 1] = <<n>>] : kids \in before, n \in LodSet(c)}

\* Node::lod with `break` in place of `return` at an absent slot
LodSetBreakAtAbsent(self) ==
    LET stop == FirstAbsent(self)
        before == {i \in Octants : i < stop}
        count(v) == Cardinality({i \in before :
                        /\ IsLeaf(self.children[i][1])
                        /\ LeafData(self.children[i][1]) = <<v>>})
        all_data == {LeafData(self.children[i][1])[1] :
                        i \in {j \in before : IsLeaf(self.children[j][1])}}
        most == {v \in all_data : \A w \in all_data : count(w) <= count(v)}
    IN  IF all_data = {}
        THEN {[self EXCEPT !.children = NoChildren]}
        ELSE {[self EXCEPT !.ty = Leaf(v), !.children = NoChildren] : v \in most}

\* Node::lod with min_by_key in place of max_by_key
LodSetLeastCommon(self) ==
    LET stop == FirstAbsent(self)
        count(v) == Cardinality({i \in Octants :
                        /\ IsLeaf(self.children[i][1])
                        /\ LeafData(self.children[i][1]) = <<v>>})
        all_data == {LeafData(self.children[i][1])[1] :
                        i \in {j \in Octants : IsLeaf(self.children[j][1])}}
        least == {v \in all_data : \A w \in all_data : count(v) <= count(w)}
    IN  IF stop < OCTREE_CHILDREN
        THEN {[self EXCEPT !.children = kids] : kids \in LodVisited(self, stop)}
        ELSE IF all_data = {}
        THEN {[self EXCEPT !.children = NoChildren]}
        ELSE {[self EXCEPT !.ty = Leaf(v), !.children = NoChildren] : v \in least}

\* Node::lod: the set of nodes the call can leave. The tally is a
\* hashbrown::HashMap and max_by_key takes the last maximum in its iteration
\* order, so among values of equal highest count any one can be taken.
LodSet(self) ==
    LET stop == FirstAbsent(self)
        count(v) == Cardinality({i \in Octants :
                        /\ IsLeaf(self.children[i][1])
                        /\ LeafData(self.children[i][1]) = <<v>>})
        all_data == {LeafData(self.children[i][1])[1] :
                        i \in {j \in Octants : IsLeaf(self.children[j][1])}}
        most == {v \in all_data : \A w \in all_data : count(w) <= count(v)}
    IN  IF stop < OCTREE_CHILDREN
        THEN {[self EXCEPT !.children = kids] : kids \in LodVisited(self, stop)}
        ELSE IF all_data = {}
        THEN {[self EXCEPT !.children = NoChildren]}
        ELSE {[self EXCEPT !.ty = Leaf(v), !.children = NoChildren] : v \in most}

\* the nodes a call of lod() on self runs lod() on, self included: the
\* recursion enters the Internal children in the slots before the first empty
\* one. `kept` tells whether the node is still in the tree when the outermost
\* call returns: a node is dropped when a node above it had no empty slot.
RECURSIVE LodRuns(_, _)
LodRuns(self, kept) ==
    LET stop == FirstAbsent(self)
    IN  {[node |-> self, kept |-> kept]}
        \cup UNION {LodRuns(self.children[i][1], kept /\ stop < OCTREE_CHILDREN) :
                       i \in {j \in Octants : j < stop /\ ~IsLeaf(self.children[j][1])}}

\* all 8 slots hold a Leaf child
AllLeafChildren(self) ==
    \A i \in Octants : self.children[i] # <<>> /\ IsLeaf(self.children[i][1])

-----------------------------------------------------------------------------
(* node.rs: Node::serialize and Node::deserialize.                          *)
(* A list entry is [node, idx]: idx maps each slot to the index of the      *)
(* child's entry, 0 for no child. Rust indexes a Vec from 0; entry i of a   *)
(* list is element i + 1 of the sequence that models it.                    *)

NoIndex == [i \in Octants |-> 0]

\* the slots of self that hold a child, and how many of them precede slot i
Present(self) == {i \in Octants : self.children[i] # <<>>}

Rank(self, i) == Cardinality({j \in Present(self) : j < i})

\* the iteration of Node::serialize with each child index taken after the
\* push of the child, one too high
SerializeStepIndexAfterPush(all_nodes, nodes_to_process) ==
    LET current_node_index == Head(nodes_to_process)
        current_node == all_nodes[current_node_index + 1].node
        indexed_children ==
            [i \in Octants |-> IF i \in Present(current_node)
                               THEN Len(all_nodes) + Rank(current_node, i) + 1
                               ELSE 0]
        pushed == [k \in 1..Cardinality(Present(current_node)) |->
                     LET i == CHOOSE j \in Present(current_node) :
                                  Rank(current_node, j) = k - 1
                     IN  [node |-> current_node.children[i][1], idx |-> NoIndex]]
    IN  [all_nodes |-> [all_nodes EXCEPT ![current_node_index + 1].idx = indexed_children]
                           \o pushed,
         nodes_to_process |-> Tail(nodes_to_process)
                           \o [k \in 1..Len(pushed) |-> Len(all_nodes) + k - 1]]

\* the iteration of Node::serialize with push_front in place of push_back
SerializeStepPushFront(all_nodes, nodes_to_process) ==
    LET current_node_index == Head(nodes_to_process)
        current_node == all_nodes[current_node_index + 1].node
        indexed_children ==
            [i \in Octants |-> IF i \in Present(current_node)
                               THEN Len(all_nodes) + Rank(current_node, i)
                               ELSE 0]
        pushed == [k \in 1..Cardinality(Present(current_node)) |->
                     LET i == CHOOSE j \in Present(current_node) :
                                  Rank(current_node, j) = k - 1
                     IN  [node |-> current_node.children[i][1], idx |-> NoIndex]]
    IN  [all_nodes |-> [all_nodes EXCEPT ![current_node_index + 1].idx = indexed_children]
                           \o pushed,
         nodes_to_process |-> [k \in 1..Len(pushed) |-> Len(all_nodes) + Len(pushed) - k]
                           \o Tail(nodes_to_process)]

\* one iteration of the while loop of Node::serialize
SerializeStep(all_nodes, nodes_to_process) ==
    LET current_node_index == Head(nodes_to_process)
        current_node == all_nodes[current_node_index + 1].node
        indexed_children ==
            [i \in Octants |-> IF i \in Present(current_node)
                               THEN Len(all_nodes) + Rank(current_node, i)
                               ELSE 0]
        pushed == [k \in 1..Cardinality(Present(current_node)) |->
                     LET i == CHOOSE j \in Present(current_node) :
                                  Rank(current_node, j) = k - 1
                     IN  [node |-> current_node.children[i][1], idx |-> NoIndex]]
    IN  [all_nodes |-> [all_nodes EXCEPT ![current_node_index + 1].idx = indexed_children]
                           \o pushed,
         nodes_to_process |-> Tail(nodes_to_process)
                           \o [k \in 1..Len(pushed) |-> Len(all_nodes) + k - 1]]

RECURSIVE SerializeLoop(_, _)
SerializeLoop(all_nodes, nodes_to_process) ==
    IF Len(nodes_to_process) = 0 THEN all_nodes
    ELSE LET next == SerializeStep(all_nodes, nodes_to_process)
         IN  SerializeLoop(next.all_nodes, next.nodes_to_process)

\* Node::serialize: the list of [node, idx], node a reference into the tree
Serialize(self) == SerializeLoop(<<[node |-> self, idx |-> NoIndex]>>, <<0>>)

\* the list Node::deserialize takes, as ToBencode for Node writes it and
\* FromBencode reads it back: each node with its type, bounds and no children
ToRecords(all_nodes) ==
    [k \in 1..Len(all_nodes) |->
        [node |-> <<[all_nodes[k].node EXCEPT !.children = NoChildren]>>,
         idx |-> all_nodes[k].idx]]

\* the iteration of Node::deserialize with the node copied into its parent and
\* left in the list
DeserializeStepNoMove(all_nodes, stack) ==
    LET top == stack[Len(stack)]
        current_node == top[1]
        current_node_parent == top[2]
        parent_child_index == top[3]
        panic == [nodes |-> all_nodes, stack |-> stack, pc |-> "panic"]
    IN  IF current_node >= Len(all_nodes) THEN panic
        ELSE
          LET rec == all_nodes[current_node + 1]
              \* the slots at which the for loop would break
              open == {ci \in Octants :
                          /\ rec.idx[ci] # 0
                          /\ rec.node # <<>> => rec.node[1].children[ci] = <<>>}
              current_child_index ==
                  IF open = {} THEN OCTREE_CHILDREN
                  ELSE CHOOSE ci \in open : \A cj \in open : ci <= cj
          IN  IF open # {} /\ rec.node = <<>> THEN panic
              ELSE IF current_child_index < OCTREE_CHILDREN
              THEN [nodes |-> all_nodes,
                    stack |-> Append(stack, <<rec.idx[current_child_index],
                                              current_node, current_child_index>>),
                    pc |-> "loop"]
              ELSE IF current_node # 0
              THEN IF rec.node = <<>> \/ all_nodes[current_node_parent + 1].node = <<>>
                   THEN panic
                   ELSE [nodes |-> [all_nodes EXCEPT
                                     ![current_node_parent + 1].node =
                                         <<[@[1] EXCEPT !.children[parent_child_index] = rec.node]>>],
                         stack |-> SubSeq(stack, 1, Len(stack) - 1),
                         pc |-> "loop"]
              ELSE [nodes |-> all_nodes,
                    stack |-> SubSeq(stack, 1, Len(stack) - 1),
                    pc |-> "loop"]

\* one iteration of the while loop of Node::deserialize: [nodes, stack, pc];
\* pc "panic" is an index out of bounds or an unwrap of None
DeserializeStep(all_nodes, stack) ==
    LET top == stack[Len(stack)]
        current_node == top[1]
        current_node_parent == top[2]
        parent_child_index == top[3]
        panic == [nodes |-> all_nodes, stack |-> stack, pc |-> "panic"]
    IN  IF current_node >= Len(all_nodes) THEN panic
        ELSE
          LET rec == all_nodes[current_node + 1]
              \* the slots at which the for loop would break
              open == {ci \in Octants :
                          /\ rec.idx[ci] # 0
                          /\ rec.node # <<>> => rec.node[1].children[ci] = <<>>}
              current_child_index ==
                  IF open = {} THEN OCTREE_CHILDREN
                  ELSE CHOOSE ci \in open : \A cj \in open : ci <= cj
          IN  IF open # {} /\ rec.node = <<>> THEN panic
              ELSE IF current_child_index < OCTREE_CHILDREN
              THEN [nodes |-> all_nodes,
                    stack |-> Append(stack, <<rec.idx[current_child_index],
                                              current_node, current_child_index>>),
                    pc |-> "loop"]
              ELSE IF current_node # 0
              THEN IF rec.node = <<>> \/ all_nodes[current_node_parent + 1].node = <<>>
                   THEN panic
                   ELSE [nodes |-> [all_nodes EXCEPT
                                     ![current_node + 1].node = <<>>,
                                     ![current_node_parent + 1].node =
                                         <<[@[1] EXCEPT !.children[parent_child_index] = rec.node]>>],
                         stack |-> SubSeq(stack, 1, Len(stack) - 1),
                         pc |-> "loop"]
              ELSE [nodes |-> all_nodes,
                    stack |-> SubSeq(stack, 1, Len(stack) - 1),
                    pc |-> "loop"]

\* the return of Node::deserialize, once the stack is empty: [pc, root]
DeserializeReturn(all_nodes) ==
    IF Len(all_nodes) = 0 \/ all_nodes[1].node = <<>>
    THEN [pc |-> "panic", root |-> <<>>]
    ELSE [pc |-> "done", root |-> all_nodes[1].node]

\* the loop of Node::deserialize run for at most `fuel` iterations: [pc, root],
\* pc "loop" when it has not ended by then
RECURSIVE DeserializeLoop(_, _, _)
DeserializeLoop(all_nodes, stack, fuel) ==
    IF Len(stack) = 0 THEN DeserializeReturn(all_nodes)
    ELSE IF fuel = 0 THEN [pc |-> "loop", root |-> <<>>]
    ELSE LET next == DeserializeStep(all_nodes, stack)
         IN  IF next.pc = "panic" THEN [pc |-> "panic", root |-> <<>>]
             ELSE DeserializeLoop(next.nodes, next.stack, fuel - 1)

\* Node::deserialize of a list that takes no more than two iterations an entry
Deserialize(all_nodes) ==
    DeserializeLoop(all_nodes, <<<<0, 0, 0>>>>, 2 * Len(all_nodes))

-----------------------------------------------------------------------------
(* u32 arithmetic of octree.rs, in two's complement: a u32 above 2^31 - 1   *)
(* is held as the negative number it wraps to; u32::MAX is -1.              *)

U32Max == -1

\* unsigned a >= b
UGe(a, b) == IF (a >= 0) = (b >= 0) THEN a >= b ELSE a < 0

\* a + 1: [val, overflow]
UAdd1(a) == [val |-> IF a = 2147483647 THEN -2147483647 - 1 ELSE a + 1,
             overflow |-> a = U32Max]

\* a - 1: [val, overflow]
USub1(a) == [val |-> IF a = -2147483647 - 1 THEN 2147483647 ELSE a - 1,
             overflow |-> a = 0]

\* 2_u32.pow(e): [val, overflow]; a wrapped product of 32 or more twos is 0
UPow2(e) == IF e >= 0 /\ e < 31 THEN [val |-> Pow2(e), overflow |-> FALSE]
            ELSE IF e = 31 THEN [val |-> -2147483647 - 1, overflow |-> FALSE]
            ELSE [val |-> 0, overflow |-> TRUE]

-----------------------------------------------------------------------------
(* octree.rs: Octree::new *)

RECURSIVE FloorLog2(_)
FloorLog2(n) == IF n < 2 THEN 0 ELSE 1 + FloorLog2(n \div 2)

\* `dimension.get() as f32`: the nearest binary32 (24-bit significand), ties
\* to even; for arguments below 2^30
AsF32(d) ==
    LET e == FloorLog2(d)
    IN  IF e < 24 THEN d
        ELSE LET q == Pow2(e - 23)
                 r == d % q
                 down == d - r
             IN  IF r * 2 > q \/ (r * 2 = q /\ (down \div q) % 2 = 1)
                 THEN down + q ELSE down

\* the exponents k for which ln(2^k) / ln(2), each operation rounded to
\* binary32, is not the integer k (it is the binary32 just below k)
F32LogMissedPowers == {13, 15, 26}

\* for 2^k in binary32: how far below and above 2^k the integers x reach
\* whose binary32 quotient ln(x) / ln(2) rounds to the integer k
F32LogWindow(k) ==
    CASE k = 21 -> <<1, 2>>
      [] k = 22 -> <<1, 2>>
      [] k = 23 -> <<7, 8>>
      [] k = 24 -> <<15, 17>>
      [] k = 25 -> <<14, 50>>
      [] k = 27 -> <<187, 72>>
      [] k = 28 -> <<247, 272>>
      [] k = 29 -> <<239, 800>>
      [] OTHER -> <<0, 0>>

\* `(x as f32).log(2.0).fract() == 0.0` for a binary32 integer x < 2^30
\* (f32::log(self, base) is self.ln() / base.ln())
LogFractIsZero(x) ==
    LET e == FloorLog2(x)
        near(k) == /\ k \notin F32LogMissedPowers
                   /\ x >= Pow2(k) - F32LogWindow(k)[1]
                   /\ x <= Pow2(k) + F32LogWindow(k)[2]
    IN  near(e) \/ near(e + 1)

\* `max_depth.round() as u32` when the fractional part is zero
RoundedLog(x) ==
    LET e == FloorLog2(x)
    IN  IF x - Pow2(e) <= Pow2(e + 1) - x THEN e ELSE e + 1

\* Octree::new: [res, octree fields]
NewOctree(d) ==
    LET max_depth_of == AsF32(d)
    IN  IF LogFractIsZero(max_depth_of)
        THEN [res |-> "Ok", dimension |-> d, curr_lod_level |-> 1,
              max_lod_level |-> RoundedLog(max_depth_of), min_dimension |-> 1,
              auto_simplify |-> FALSE, root |-> NewNode(<<0, 0, 0>>, d)]
        ELSE [res |-> "Err", dimension |-> d, curr_lod_level |-> 0,
              max_lod_level |-> 0, min_dimension |-> 0,
              auto_simplify |-> FALSE, root |-> NewNode(<<0, 0, 0>>, 0)]

-----------------------------------------------------------------------------
(* the calls of the public interface *)

Call(op, pos, data, ret) == [op |-> op, pos |-> pos, data |-> data, ret |-> ret]

NoPos == <<0, 0, 0>>

\* the cell of side m that holds p also holds q
SameCell(q, p, m) == \A a \in 1..3 : q[a] \div m = p[a] \div m

NothingWritten == [q \in Points |-> <<>>]

\* the history after insert(position, data) returned Ok: the call wrote the
\* cell of side min_dimension around position. A write is recorded for the
\* position itself, and only while cells have dimension 1.
WrittenAfterInsert(position, data) ==
    IF written.on
    THEN [written EXCEPT !.at = [q \in DOMAIN written.at |->
             IF q = position /\ min_dimension = 1 THEN <<data>>
             ELSE IF SameCell(q, position, min_dimension) THEN <<>>
             ELSE written.at[q]]]
    ELSE written

\* the history after clear_at(position) returned Ok
WrittenAfterClearAt(position) ==
    IF written.on /\ min_dimension > 0
    THEN [written EXCEPT !.at = [q \in DOMAIN written.at |->
             IF SameCell(q, position, min_dimension) THEN <<>> ELSE written.at[q]]]
    ELSE written

\* the history after clear() or lod_down(), which rewrite every cell
WrittenReset == [written EXCEPT !.at = [q \in DOMAIN written.at |-> <<>>]]

CodecIdle == /\ de_nodes = <<>>
             /\ de_stack = <<>>
             /\ de_pc = "idle"
             /\ de_input = <<>>
             /\ de_result = <<>>

NotConstructed ==
    /\ status = "none"
    /\ auto_simplify = FALSE
    /\ dimension = 0
    /\ curr_lod_level = 0
    /\ max_lod_level = 0
    /\ min_dimension = 0
    /\ root = NewNode(<<0, 0, 0>>, 0)
    /\ overflow_checks = FALSE
    /\ last = Call("none", NoPos, 0, <<"()">>)
    /\ CodecIdle

Init == /\ NotConstructed
        /\ written = [on |-> FALSE, at |-> NothingWritten]

\* Octree::new(NonZeroU32::new(d).unwrap())
New(d) ==
    /\ status = "none"
    /\ LET o == NewOctree(d)
       IN  /\ status' = (IF o.res = "Ok" THEN "ok" ELSE "err")
           /\ auto_simplify' = o.auto_simplify
           /\ dimension' = o.dimension
           /\ curr_lod_level' = o.curr_lod_level
           /\ max_lod_level' = o.max_lod_level
           /\ min_dimension' = o.min_dimension
           /\ root' = o.root
           /\ last' = Call("new", NoPos, d,
                           IF o.res = "Ok" THEN <<"Ok">> ELSE <<"Err", d>>)
    \* the build profile. The two differ only where u32 arithmetic overflows,
    \* and in lod_down and lod_up that takes max_lod_level = 0.
    /\ overflow_checks' \in (IF NewOctree(d).res = "Ok" /\ NewOctree(d).max_lod_level = 0
                             THEN BOOLEAN ELSE {FALSE})
    /\ UNCHANGED written
    /\ UNCHANGED codecVars

\* octree.auto_simplify = b (a public field)
SetAutoSimplify(b) ==
    /\ status = "ok"
    /\ auto_simplify # b
    /\ auto_simplify' = b
    /\ last' = Call("auto_simplify", NoPos, 0, <<"()">>)
    /\ UNCHANGED <<status, overflow_checks, dimension, curr_lod_level,
                   max_lod_level, min_dimension, root, written>>
    /\ UNCHANGED codecVars

\* Octree::insert(position, data)
OctreeInsert(position, data) ==
    /\ status = "ok"
    /\ LET r == Insert(root, position, min_dimension, auto_simplify, data)
       IN  /\ root' = r.node
           /\ status' = (IF r.res = "Panic" THEN "panic" ELSE "ok")
           /\ last' = Call("insert", position, data,
                           CASE r.res = "Ok" -> <<"Ok">>
                             [] r.res = "Err" -> <<"Err">> \o position
                             [] OTHER -> <<"panic">>)
           /\ written' = IF r.res = "Ok" THEN WrittenAfterInsert(position, data)
                         ELSE written
    /\ UNCHANGED <<overflow_checks, auto_simplify, dimension, curr_lod_level,
                   max_lod_level, min_dimension>>
    /\ UNCHANGED codecVars

\* Octree::clear_at(position)
OctreeClearAt(position) ==
    /\ status = "ok"
    /\ LET r == Clear(root, position, min_dimension)
       IN  /\ root' = r.node
           /\ status' = (IF r.res = "Panic" THEN "panic" ELSE "ok")
           /\ last' = Call("clear_at", position, 0,
                           CASE r.res = "Ok" -> <<"Ok">>
                             [] r.res = "Err" -> <<"Err">> \o position
                             [] OTHER -> <<"panic">>)
           /\ written' = IF r.res = "Ok" THEN WrittenAfterClearAt(position)
                         ELSE written
    /\ UNCHANGED <<overflow_checks, auto_simplify, dimension, curr_lod_level,
                   max_lod_level, min_dimension>>
    /\ UNCHANGED codecVars

\* Octree::get(position)
OctreeGet(position) ==
    /\ status = "ok"
    /\ LET g == Get(root, position)
       IN  last' = Call("get", position, 0,
                        IF g = <<>> THEN <<"None">> ELSE <<"Some">> \o g)
    /\ UNCHANGED <<written>>
    /\ UNCHANGED octreeVars
    /\ UNCHANGED codecVars

\* Octree::clear() with the new root given the dimension of the smallest cell
OctreeClearToMinDimension ==
    /\ status = "ok"
    /\ root' = NewNode(<<0, 0, 0>>, min_dimension)
    /\ last' = Call("clear", NoPos, 0, <<"()">>)
    /\ written' = WrittenReset
    /\ UNCHANGED <<status, overflow_checks, auto_simplify, dimension,
                   curr_lod_level, max_lod_level, min_dimension>>
    /\ UNCHANGED codecVars

\* Octree::clear()
OctreeClear ==
    /\ status = "ok"
    /\ root' = NewNode(<<0, 0, 0>>, dimension)
    /\ last' = Call("clear", NoPos, 0, <<"()">>)
    /\ written' = WrittenReset
    /\ UNCHANGED <<status, overflow_checks, auto_simplify, dimension,
                   curr_lod_level, max_lod_level, min_dimension>>
    /\ UNCHANGED codecVars

\* Octree::simplify()
OctreeSimplify ==
    /\ status = "ok"
    /\ LET r == SimplifyRecursive(root)
       IN  /\ root' = r.node
           /\ last' = Call("simplify", NoPos, 0,
                           IF r.ret THEN <<"true">> ELSE <<"false">>)
    /\ UNCHANGED <<status, overflow_checks, auto_simplify, dimension,
                   curr_lod_level, max_lod_level, min_dimension, written>>
    /\ UNCHANGED codecVars

\* the arithmetic of Octree::lod_down: [level, min_dimension, panic]
LodDownLevel ==
    LET next == UAdd1(curr_lod_level)
        level == IF UGe(next.val, max_lod_level) THEN max_lod_level ELSE next.val
        exp == USub1(level)
        pow == UPow2(exp.val)
    IN  [level |-> level, min_dimension |-> pow.val,
         panic |-> overflow_checks /\ (next.overflow \/ exp.overflow \/ pow.overflow)]

\* Octree::lod_down()
OctreeLodDown ==
    /\ status = "ok"
    /\ LET l == LodDownLevel
       IN  IF l.panic
           THEN /\ status' = "panic"
                /\ last' = Call("lod_down", NoPos, 0, <<"panic">>)
                /\ UNCHANGED <<root, curr_lod_level, min_dimension, written>>
           ELSE /\ root' \in LodSet(root)
                /\ curr_lod_level' = l.level
                /\ min_dimension' = l.min_dimension
                /\ last' = Call("lod_down", NoPos,
                                Cardinality({r \in LodRuns(root, TRUE) :
                                                AllLeafChildren(r.node)}),
                                <<"()">>)
                /\ written' = WrittenReset
                /\ UNCHANGED status
    /\ UNCHANGED <<overflow_checks, auto_simplify, dimension, max_lod_level>>
    /\ UNCHANGED codecVars

\* how far below u32::MAX the model follows a wrapped curr_lod_level
MaxWrapped == 2

\* the arithmetic of Octree::lod_up: [level, min_dimension, panic]
LodUpLevel ==
    LET prev == USub1(curr_lod_level)
        level == IF ~UGe(prev.val, 1) THEN 1 ELSE prev.val
        exp == USub1(level)
        pow == UPow2(exp.val)
    IN  [level |-> level, min_dimension |-> pow.val,
         panic |-> overflow_checks /\ (prev.overflow \/ exp.overflow \/ pow.overflow)]

\* Octree::lod_up()
OctreeLodUp ==
    /\ status = "ok"
    /\ curr_lod_level > U32Max - MaxWrapped
    /\ LET l == LodUpLevel
       IN  IF l.panic
           THEN /\ status' = "panic"
                /\ last' = Call("lod_up", NoPos, 0, <<"panic">>)
                /\ UNCHANGED <<curr_lod_level, min_dimension>>
           ELSE /\ curr_lod_level' = l.level
                /\ min_dimension' = l.min_dimension
                /\ last' = Call("lod_up", NoPos, 0, <<"()">>)
                /\ UNCHANGED status
    /\ UNCHANGED <<overflow_checks, auto_simplify, dimension, max_lod_level,
                   root, written>>
    /\ UNCHANGED codecVars

\* octree.deserialize(records of octree.serialize())
OctreeDeserialize ==
    /\ status = "ok"
    /\ LET r == Deserialize(ToRecords(Serialize(root)))
       IN  IF r.pc = "done"
           THEN /\ root' = r.root[1]
                /\ status' = "ok"
                /\ last' = Call("deserialize", NoPos, 0, <<"()">>)
           ELSE /\ root' = root
                /\ status' = "panic"
                /\ last' = Call("deserialize", NoPos, 0, <<"panic">>)
    /\ UNCHANGED <<overflow_checks, auto_simplify, dimension, curr_lod_level,
                   max_lod_level, min_dimension, written>>
    /\ UNCHANGED codecVars

Next ==
    \/ \E d \in DimArgs : New(d)
    \/ \E b \in BOOLEAN : SetAutoSimplify(b)
    \/ \E p \in Points, v \in Values : OctreeInsert(p, v)
    \/ \E p \in Points : OctreeClearAt(p)
    \/ \E p \in Points : OctreeGet(p)
    \/ OctreeClear
    \/ OctreeSimplify
    \/ OctreeLodDown
    \/ OctreeLodUp
    \/ OctreeDeserialize

Spec == Init /\ [][Next]_vars

\* the same behaviours, with the history of inserts kept
InitHistory == /\ NotConstructed
               /\ written = [on |-> TRUE, at |-> NothingWritten]

SpecHistory == InitHistory /\ [][Next]_vars

-----------------------------------------------------------------------------
(* Octree::new over a wider range of arguments *)

MaxNewArg == 130

\* arguments at and next to the powers of two that binary32 treats unevenly
LargeNewArgs == {8191, 8192, 32768, 2097151, 2097152, 2097154, 16777216,
                 16777217, 67108864}

NewArgs == (1..MaxNewArg) \cup LargeNewArgs

NextNew == \E d \in NewArgs : New(d)

SpecNew == Init /\ [][NextNew]_vars

-----------------------------------------------------------------------------
(* Filling a domain: one value inserted at every position, then simplify() *)

FillDims == {Pow2(k) : k \in 0..MaxDimLog}

\* the octree as Octree::new(d) returns it, with an empty history of d^3 cells
InitFill ==
    \E d \in FillDims :
        LET o == NewOctree(d)
        IN  /\ status = "ok"
            /\ overflow_checks = FALSE
            /\ auto_simplify = o.auto_simplify
            /\ dimension = o.dimension
            /\ curr_lod_level = o.curr_lod_level
            /\ max_lod_level = o.max_lod_level
            /\ min_dimension = o.min_dimension
            /\ root = o.root
            /\ last = Call("new", NoPos, d, <<"Ok">>)
            /\ written = [on |-> TRUE, at |-> [q \in DomainPoints(d) |-> <<>>]]
            /\ CodecIdle

Filled == {q \in DOMAIN written.at : written.at[q] # <<>>}

\* the block of side 2 that holds p, numbered along x, then y, then z
Block(p) == (p[1] \div 2) + (dimension \div 2) * ((p[2] \div 2) + (dimension \div 2) * (p[3] \div 2))

\* auto_simplify is chosen before the first insert
FillAutoSimplify(b) ==
    /\ Filled = {}
    /\ last.op = "new"
    /\ SetAutoSimplify(b)

\* insert(p, v) at a position p not yet filled, v the value of the fill.
\* Blocks are filled one after the other, the positions of a block in any
\* order.
FillInsert ==
    /\ last.op # "simplify"
    /\ \E unfilled \in {DOMAIN written.at \ Filled} :
          /\ unfilled # {}
          /\ \E first \in {b \in {Block(q) : q \in unfilled} :
                              \A q \in unfilled : b <= Block(q)} :
             \E p \in {q \in unfilled : Block(q) = first} :
             \E v \in {w \in Values : \A q \in Filled : written.at[q] = <<w>>} :
                 OctreeInsert(p, v)

\* simplify(), once every position is filled
FillSimplify ==
    /\ last.op = "insert"
    /\ Filled = DOMAIN written.at
    /\ OctreeSimplify

NextFill ==
    \/ \E b \in BOOLEAN : FillAutoSimplify(b)
    \/ FillInsert
    \/ FillSimplify

SpecFill == InitFill /\ [][NextFill]_vars

-----------------------------------------------------------------------------
(* Node::deserialize, one loop iteration at a time, on lists that Node::serialize
   wrote and on lists that differ from those in one place *)

MaxStack == 5

\* trees whose lists are offered: a lone leaf, a split root, and a root with
\* one internal child
SampleTrees ==
    { NewNode(<<0, 0, 0>>, 1),
      Insert(NewNode(<<0, 0, 0>>, 2), <<0, 0, 0>>, 1, FALSE, 1).node,
      Insert(NewNode(<<0, 0, 0>>, 4), <<0, 2, 0>>, 1, FALSE, 1).node }

SerializedSamples == {ToRecords(Serialize(t)) : t \in SampleTrees}

\* a list with one child index replaced, one node missing, or its last entry
\* cut off
Damaged(l) ==
    {[l EXCEPT ![k].idx[i] = x] : k \in 1..Len(l), i \in {0, 4}, x \in 0..Len(l)}
    \cup {[l EXCEPT ![k].node = <<>>] : k \in 1..Len(l)}
    \cup {SubSeq(l, 1, Len(l) - 1)}

CodecInputs == SerializedSamples \cup UNION {Damaged(l) : l \in SerializedSamples}

\* Node::deserialize(all_nodes): up to the first test of the while loop
DeserializeStart(all_nodes) ==
    /\ de_pc = "idle"
    /\ de_input' = all_nodes
    /\ de_nodes' = all_nodes
    /\ de_stack' = <<<<0, 0, 0>>>>
    /\ de_pc' = "loop"
    /\ de_result' = <<>>
    /\ UNCHANGED <<octreeVars, last, written>>

\* one iteration of the while loop; a stack of more than MaxStack frames is
\* followed no further
DeserializeIterate ==
    /\ de_pc = "loop"
    /\ Len(de_stack) > 0
    /\ Len(de_stack) <= MaxStack
    /\ LET next == DeserializeStep(de_nodes, de_stack)
       IN  /\ de_nodes' = next.nodes
           /\ de_stack' = next.stack
           /\ de_pc' = next.pc
    /\ UNCHANGED <<de_input, de_result, octreeVars, last, written>>

\* the stack is empty: the root is moved out of the list and returned
DeserializeFinish ==
    /\ de_pc = "loop"
    /\ Len(de_stack) = 0
    /\ LET r == DeserializeReturn(de_nodes)
       IN  /\ de_pc' = r.pc
           /\ de_result' = r.root
    /\ UNCHANGED <<de_nodes, de_stack, de_input, octreeVars, last, written>>

NextCodec ==
    \/ \E l \in CodecInputs : DeserializeStart(l)
    \/ DeserializeIterate
    \/ DeserializeFinish

SpecCodec == Init /\ [][NextCodec]_vars

-----------------------------------------------------------------------------
(* Node::deserialize, one loop iteration at a time, on lists that
   Node::serialize wrote; the loop runs on as long as the stack holds a frame *)

\* more trees whose lists are offered: a root of dimension 4 with two, and
\* with three, internal children
RebuildTrees ==
    LET two == Insert(Insert(NewNode(<<0, 0, 0>>, 4), <<0, 0, 0>>, 1, FALSE, 1).node,
                      <<0, 2, 0>>, 1, FALSE, 1).node
    IN  SampleTrees \cup {two, Insert(two, <<2, 0, 0>>, 1, FALSE, 0).node}

RebuildInputs == {ToRecords(Serialize(t)) : t \in RebuildTrees}

NextRebuild ==
    \/ \E l \in RebuildInputs : DeserializeStart(l)
    \/ DeserializeIterate
    \/ DeserializeFinish

SpecRebuild ==
    /\ Init
    /\ [][NextRebuild]_vars
    /\ WF_vars(DeserializeIterate)
    /\ WF_vars(DeserializeFinish)

-----------------------------------------------------------------------------
(* Votes of Node::lod: a small domain, inserts at every position *)

VoteDimLog == 1

VoteDim == Pow2(VoteDimLog)

NextVote ==
    \/ New(VoteDim)
    \/ \E p \in DomainPoints(VoteDim), v \in Values : OctreeInsert(p, v)
    \/ OctreeLodDown

SpecVote == Init /\ [][NextVote]_vars

-----------------------------------------------------------------------------
(* Node::lod on dense nodes with Internal children: the octants of the root
   are written one after the other, at either level of detail *)

DenseDimLog == 2

DenseDim == Pow2(DenseDimLog)

\* insert(p, v) at the min corner of the first octant of the root that holds
\* no child
DenseInsert ==
    /\ FirstAbsent(root) < OCTREE_CHILDREN
    /\ \E v \in Values :
          LET half == dimension \div 2
          IN  OctreeInsert(ChildMinPosition(root, <<half, half, half>>, FirstAbsent(root)), v)

NextDense ==
    \/ New(DenseDim)
    \/ DenseInsert
    \/ OctreeLodDown
    \/ OctreeLodUp

SpecDense == Init /\ [][NextDense]_vars

-----------------------------------------------------------------------------
(* Properties *)

\* the position lies in the domain of the octree
InDomain(position) == \A a \in 1..3 : position[a] < dimension

\* C1: a successful insert(p, v) is immediately followed by get(p) == Some(v),
\* in every tree the public operations reach, with auto_simplify on or off.
C1_WriteThenRead ==
    (last.op = "insert" /\ last.ret = <<"Ok">>) => Get(root, last.pos) = <<last.data>>

\* an insert of a non-default value has returned Ok in a domain of dimension
\* 4 whose smallest cell has dimension 2, with auto_simplify on
C1_Witness ==
    /\ last.op = "insert"
    /\ last.ret = <<"Ok">>
    /\ last.data # Default
    /\ dimension = 4
    /\ min_dimension = 2
    /\ auto_simplify
    /\ ~IsLeaf(root)

\* C2: with minimum dimension 1, a point q written by insert and not since
\* overwritten or cleared still reads Some(its last written value) after an
\* insert to a different point, also when q's region had been merged into a
\* larger leaf before.
C2_SplitPreservesSiblings ==
    [][(last'.op = "insert" /\ last'.ret = <<"Ok">> /\ min_dimension = 1) =>
          \A q \in Points \ {last'.pos} :
              (written.at[q] # <<>> /\ Get(root, q) = written.at[q])
                  => Get(root', q) = written.at[q]]_vars

\* C3: after a successful clear_at(p), get(p) == Some(default value), for
\* every in-domain p and every reachable tree.
C3_ClearResetsToDefault ==
    (last.op = "clear_at" /\ last.ret = <<"Ok">>) => Get(root, last.pos) = <<Default>>

\* C4: clear_at(p) leaves get(q) unchanged for every q outside the
\* minimum-dimension cell that holds p.
C4_ClearPreservesOthers ==
    [][(last'.op = "clear_at" /\ last'.ret = <<"Ok">> /\ min_dimension > 0) =>
          \A q \in DomainPoints(dimension) :
              ~SameCell(q, last'.pos, min_dimension) => Get(root', q) = Get(root, q)]_vars

\* C5: for a point with a coordinate >= the domain dimension, insert and
\* clear_at return Err(InvalidPosition) with the point's coordinates, get
\* returns None, and the octree is as before the call.
C5_BoundsRejection ==
    [][(last'.op \in {"insert", "clear_at", "get"} /\ ~InDomain(last'.pos)) =>
          /\ last'.op \in {"insert", "clear_at"} => last'.ret = <<"Err">> \o last'.pos
          /\ last'.op = "get" => last'.ret = <<"None">>
          /\ UNCHANGED octreeVars]_vars

\* insert or clear_at was called with a position outside a tree that holds
\* written data
C5_Witness ==
    /\ last.op \in {"insert", "clear_at"}
    /\ ~InDomain(last.pos)
    /\ last.ret = <<"Err">> \o last.pos
    /\ ~IsLeaf(root)
    /\ dimension = 4

\* C10: simplify, and an insert with auto_simplify enabled, leave get(q)
\* unchanged for every point q other than the cell just written.
C10_SimplifyPreservesValues ==
    [][/\ last'.op = "simplify" =>
              \A q \in DomainPoints(dimension) : Get(root', q) = Get(root, q)
       /\ (last'.op = "insert" /\ last'.ret = <<"Ok">> /\ auto_simplify) =>
              \A q \in DomainPoints(dimension) :
                  ~SameCell(q, last'.pos, min_dimension) => Get(root', q) = Get(root, q)]_vars

IsPowerOfTwo(d) == d >= 1 /\ d = Pow2(FloorLog2(d))

\* C6: Octree::new(d) returns Ok exactly when d is a power of two, with a root
\* that is one default-valued leaf of dimension d at the origin; for every
\* other d it returns Err(InvalidDimension(d)).
C6_NewAcceptsPowersOfTwo ==
    last.op = "new" =>
        /\ last.ret = <<"Ok">> <=> IsPowerOfTwo(last.data)
        /\ last.ret = <<"Ok">> =>
               /\ root = NewNode(<<0, 0, 0>>, last.data)
               /\ dimension = last.data
        /\ last.ret # <<"Ok">> => last.ret = <<"Err", last.data>>

\* the child indexes of entry k of a list, as a set
ChildIndexes(l, k) == {l[k].idx[i] : i \in Octants} \ {0}

\* the entries a walk along child indexes reaches from the entries in `from`
RECURSIVE Reachable(_, _)
Reachable(l, from) ==
    LET step == from \cup UNION {ChildIndexes(l, k + 1) : k \in {j \in from : j < Len(l)}}
    IN  IF step = from THEN from ELSE Reachable(l, step)

\* a child index out of range; an entry that a walk from its own children
\* reaches (itself, or a cycle); an entry referenced twice; a missing record
Malformed(l) ==
    \/ Len(l) = 0
    \/ \E k \in 1..Len(l) : \E x \in ChildIndexes(l, k) : x >= Len(l)
    \/ \E k \in 1..Len(l) : (k - 1) \in Reachable(l, ChildIndexes(l, k))
    \/ \E k1, k2 \in 1..Len(l) : \E i1, i2 \in Octants :
          /\ <<k1, i1>> # <<k2, i2>>
          /\ l[k1].idx[i1] # 0
          /\ l[k1].idx[i1] = l[k2].idx[i2]
    \/ \E k \in 1..Len(l) : l[k].node = <<>>

\* C8: Node::deserialize of a malformed list ends with a MalformedTree error:
\* it does not panic, does not return a tree, and does not keep pushing frames.
C8_MalformedRejected ==
    (de_pc # "idle" /\ Malformed(de_input)) =>
        /\ de_pc # "panic"
        /\ de_pc # "done"
        /\ Len(de_stack) <= MaxStack

\* C9: once the same value v was inserted at every position of the domain,
\* simplify() returns true and leaves one root leaf with value v and no
\* children, and get(p) is Some(v) at every position p.
C9_UniformFillCollapses ==
    (last.op = "simplify" /\ Filled = DOMAIN written.at) =>
        /\ last.ret = <<"true">>
        /\ IsLeaf(root)
        /\ root.children = NoChildren
        /\ \A p \in DOMAIN written.at :
              /\ LeafData(root) = written.at[p]
              /\ Get(root, p) = written.at[p]

\* the node and every node below it
RECURSIVE SubNodes(_)
SubNodes(self) ==
    {self} \cup UNION {SubNodes(self.children[i][1]) : i \in Present(self)}

\* 1 when p lies in the upper half of the node along axis a, else 0
HalfBit(self, p, a) ==
    IF p[a] >= self.min_position[a] + self.dimension \div 2 THEN 1 ELSE 0

\* in every node of the tree and for every position p inside the node, the
\* slot chosen for p is 4 * hi + 2 * mid + x_bit, the corner offset of that
\* slot has the three half bits as its x, y, z components, and a child present
\* in that slot is placed at that corner and contains p
EncodedAs(hi, mid) ==
    \A n \in SubNodes(root) :
        \A p \in {q \in DomainPoints(dimension) : Contains(n, q)} :
            LET info == ChildInfo(n, p)
                bits == <<HalfBit(n, p, 1), HalfBit(n, p, 2), HalfBit(n, p, 3)>>
            IN  /\ info.octant = 4 * bits[hi] + 2 * bits[mid] + bits[1]
                /\ Offset(info.octant) = bits
                /\ n.children[info.octant] # <<>> =>
                      LET c == n.children[info.octant][1]
                      IN  /\ c.min_position =
                                 VAdd(n.min_position, ComponentMul(info.dimension_3d, bits))
                          /\ Contains(c, p)

\* C11 as stated: the slot chosen for p is (z_bit<<2) | (y_bit<<1) | x_bit and
\* the corner offset of the slot has the same bits as its components.
C11_OctantEncoding == status = "ok" => EncodedAs(3, 2)

\* C11 amended: the slot chosen for p is (y_bit<<2) | (z_bit<<1) | x_bit and
\* the corner offset of the slot has the same bits as its (x, y, z) components.
C11_OctantEncodingYHigh == status = "ok" => EncodedAs(2, 3)

\* a node below the root holds the position just inserted in a slot where the
\* y bit and the z bit differ
C11_Witness ==
    /\ last.op = "insert"
    /\ last.ret = <<"Ok">>
    /\ dimension = 4
    /\ ~IsLeaf(root)
    /\ HalfBit(root, last.pos, 2) # HalfBit(root, last.pos, 3)
    /\ root.children[ChildInfo(root, last.pos).octant] # <<>>

\* the values that occur most often among the Leaf children of a node
MostCommon(self) ==
    LET leaves == {i \in Present(self) : IsLeaf(self.children[i][1])}
        occurrences(v) == Cardinality({i \in leaves : LeafData(self.children[i][1]) = <<v>>})
    IN  {v \in Values : /\ occurrences(v) > 0
                        /\ \A w \in Values : occurrences(w) <= occurrences(v)}

\* the positions of the domain inside a node
Region(self) == {p \in DomainPoints(dimension) : Contains(self, p)}

\* lod() on a node of 8 Leaf children leaves a Leaf without children whose
\* value is one of the most common; where `read` holds of the node, every
\* position of its region reads that value after lod_down
MajorityVote(read(_)) ==
    (last'.op = "lod_down" /\ last'.ret = <<"()">>) =>
        \A r \in LodRuns(root, TRUE) :
            AllLeafChildren(r.node) =>
                /\ \A n \in LodSet(r.node) :
                      /\ IsLeaf(n)
                      /\ n.children = NoChildren
                      /\ LeafData(n)[1] \in MostCommon(r.node)
                /\ read(r) =>
                      \E v \in MostCommon(r.node) :
                          \A p \in Region(r.node) : Get(root', p) = <<v>>

AnyNode(r) == TRUE

KeptNode(r) == r.kept

\* C12 as stated: lod() on a node whose 8 slots all hold Leaf children makes it
\* a Leaf of a most common value and drops the children, and after lod_down
\* every position of that node's region reads that value.
C12_MajorityVote == [][MajorityVote(AnyNode)]_vars

\* C12 amended: the positions of the node's region read that value after
\* lod_down when the node is the root or every node above it has an empty slot.
C12_MajorityVoteWhereKept == [][MajorityVote(KeptNode)]_vars

\* lod_down ran lod() on a node of 8 Leaf children of a domain of dimension 4
\* and left a root leaf without children
C12_Witness ==
    /\ last.op = "lod_down"
    /\ last.ret = <<"()">>
    /\ last.data >= 1
    /\ dimension = 4
    /\ IsLeaf(root)
    /\ root.children = NoChildren

\* C13: lod() on nodes with identical children always produces the same leaf
\* value: the node a lod_down leaves is the only one the call can leave, also
\* when two values tie for the highest occurrence count.
C13_TieBreakDeterministic ==
    [][(last'.op = "lod_down" /\ last'.ret = <<"()">>) =>
          \A n \in LodSet(root) : n = root']_vars

\* C14: clear() leaves one default-valued root leaf of the dimension of the
\* domain, at the origin and without children, so that get(p) is Some(default)
\* at every position of the domain; dimension, the level-of-detail counters,
\* min_dimension and auto_simplify are unchanged.
C14_ClearResetsTree ==
    [][last'.op = "clear" =>
          /\ root' = [ty |-> Leaf(Default), min_position |-> <<0, 0, 0>>,
                      dimension |-> dimension, children |-> NoChildren]
          /\ \A p \in DomainPoints(dimension) : Get(root', p) = <<Default>>
          /\ UNCHANGED <<dimension, curr_lod_level, max_lod_level,
                         min_dimension, auto_simplify>>]_vars

\* clear() has run on a domain of dimension 4 at the coarser level of detail,
\* with auto_simplify on
C14_Witness ==
    /\ last.op = "clear"
    /\ dimension = 4
    /\ min_dimension = 2
    /\ curr_lod_level = 2
    /\ auto_simplify
    /\ IsLeaf(root)

Mergeable(self) ==
    /\ ~IsLeaf(self)
    /\ AllLeafChildren(self)
    /\ \A i \in Octants : LeafData(self.children[i][1]) = LeafData(self.children[0][1])

\* C16: after simplify() no node of the tree is an Internal node whose 8 slots
\* all hold Leaf children of one value, and simplify() returns true exactly
\* when the root became a leaf.
C16_SimplifiesEverywhere ==
    [][last'.op = "simplify" =>
          /\ \A n \in SubNodes(root') : ~Mergeable(n)
          /\ last'.ret = <<"true">> <=> (~IsLeaf(root) /\ IsLeaf(root'))]_vars

\* C17: simplify() on a tree that is a single root leaf returns false and
\* changes nothing, and a simplify() right after a simplify() returns false
\* and leaves the tree unchanged.
C17_SimplifyIdempotent ==
    [][(/\ last'.op = "simplify"
        /\ \/ last.op = "simplify"
           \/ IsLeaf(root) /\ root.children = NoChildren) =>
          /\ last'.ret = <<"false">>
          /\ root' = root]_vars

\* a simplify() has returned false on a tree of dimension 4 that is a single
\* root leaf
C17_Witness ==
    /\ last.op = "simplify"
    /\ last.ret = <<"false">>
    /\ dimension = 4
    /\ IsLeaf(root)
    /\ root.children = NoChildren
    /\ min_dimension = 1

\* all 8 slots hold a child, and at least one child is Internal
DenseWithInternal(self) ==
    /\ FirstAbsent(self) = OCTREE_CHILDREN
    /\ \E i \in Octants : ~IsLeaf(self.children[i][1])

\* C18: when lod() runs on a node whose 8 slots are all occupied and that has
\* Internal children, each Internal child is collapsed into a Leaf, and the
\* node ends as a Leaf without children whose value is a most frequent one
\* among the values of its 8 children, the collapsed ones counted.
C18_DenseCollapse ==
    [][(last'.op = "lod_down" /\ last'.ret = <<"()">>) =>
          \A r \in LodRuns(root, TRUE) :
              DenseWithInternal(r.node) =>
                  /\ \A kids \in LodVisited(r.node, OCTREE_CHILDREN) :
                        \A i \in Octants : IsLeaf(kids[i][1])
                  /\ \A n \in LodSet(r.node) :
                        /\ IsLeaf(n)
                        /\ n.children = NoChildren
                        /\ \E kids \in LodVisited(r.node, OCTREE_CHILDREN) :
                              LeafData(n) \in
                                  {<<v>> : v \in MostCommon([r.node EXCEPT !.children = kids])}]_vars

\* C19: when lod() runs on a node with at least one absent child slot, the
\* node keeps its kind and value and every child it holds stays in its slot;
\* for the root, this is what lod_down leaves in the octree.
C19_AbsentSlotNoEffect ==
    [][(last'.op = "lod_down" /\ last'.ret = <<"()">>) =>
          /\ \A r \in LodRuns(root, TRUE) :
                FirstAbsent(r.node) < OCTREE_CHILDREN =>
                    \A n \in LodSet(r.node) :
                        /\ n.ty = r.node.ty
                        /\ Present(n) = Present(r.node)
          /\ FirstAbsent(root) < OCTREE_CHILDREN =>
                /\ root'.ty = root.ty
                /\ Present(root') = Present(root)]_vars

\* lod_down has run on an Internal root of dimension 4 with absent slots: the
\* root is still Internal and still holds the child of slot 0, which lod()
\* collapsed into a Leaf
C19_Witness ==
    /\ last.op = "lod_down"
    /\ last.ret = <<"()">>
    /\ last.data >= 1
    /\ dimension = 4
    /\ ~IsLeaf(root)
    /\ FirstAbsent(root) \in 1..(OCTREE_CHILDREN - 1)
    /\ IsLeaf(root.children[0][1])

\* C20: for every valid dimension, a lod_down() or lod_up() call does not
\* overflow, and leaves curr_lod_level >= 1, min_dimension =
\* 2^(curr_lod_level - 1) and 1 <= min_dimension <= dimension; lod_up at level
\* 1 and lod_down at the maximum level leave the level unchanged.
C20_LodBookkeeping ==
    [][last'.op \in {"lod_down", "lod_up"} =>
          /\ last'.ret = <<"()">>
          /\ curr_lod_level' >= 1
          /\ min_dimension' = Pow2(curr_lod_level' - 1)
          /\ 1 <= min_dimension'
          /\ min_dimension' <= dimension
          /\ (last'.op = "lod_up" /\ curr_lod_level = 1) => curr_lod_level' = 1
          /\ (last'.op = "lod_down" /\ curr_lod_level = max_lod_level) =>
                 curr_lod_level' = curr_lod_level]_vars

\* C21: whatever calls were made, and also where the last one panicked, the
\* root has min corner (0,0,0) and the dimension of the domain, and the child
\* in slot s of a node N has dimension N.dimension / 2, which is not 0, and
\* min corner N.min_position + (N.dimension / 2) * offset(s); the positions
\* the child contains are the positions of N that child_info routes to slot s.
C21_Geometry ==
    status \in {"ok", "panic"} =>
        /\ root.min_position = <<0, 0, 0>>
        /\ root.dimension = dimension
        /\ \A n \in SubNodes(root) :
              \A s \in Present(n) :
                  LET c == n.children[s][1]
                      half == n.dimension \div 2
                  IN  /\ c.dimension = half
                      /\ half > 0
                      /\ c.min_position =
                             VAdd(n.min_position, ComponentMul(<<half, half, half>>, Offset(s)))
                      /\ \A p \in DomainPoints(dimension) :
                            Contains(c, p) <=>
                                (Contains(n, p) /\ ChildInfo(n, p).octant = s)

\* the children a node holds, from slot i on, in slot order
RECURSIVE KidsFrom(_, _)
KidsFrom(self, i) ==
    IF i = OCTREE_CHILDREN THEN <<>>
    ELSE self.children[i] \o KidsFrom(self, i + 1)

\* the children of the nodes of one level of the tree, in the order of the level
RECURSIVE NextLevel(_)
NextLevel(level) ==
    IF level = <<>> THEN <<>>
    ELSE KidsFrom(Head(level), 0) \o NextLevel(Tail(level))

\* the nodes of a tree level by level, each level in order
RECURSIVE BreadthFirst(_)
BreadthFirst(level) ==
    IF level = <<>> THEN <<>>
    ELSE level \o BreadthFirst(NextLevel(level))

TopFrame(stack) == stack[Len(stack)]

\* an iteration that pushes a frame: the record pushed is not the root, is
\* still in the list and is not yet in its parent's slot
PushesOnce ==
    LET frame == TopFrame(de_stack')
    IN  /\ Len(de_stack') = Len(de_stack) + 1
        /\ de_stack' = Append(de_stack, frame)
        /\ de_nodes' = de_nodes
        /\ frame[1] \in 1..(Len(de_nodes) - 1)
        /\ frame[1] = de_input[frame[2] + 1].idx[frame[3]]
        /\ de_nodes[frame[1] + 1].node # <<>>
        /\ de_nodes[frame[2] + 1].node[1].children[frame[3]] = <<>>

\* an iteration that pops a frame: every child of the record is attached to it
\* and gone from the list; a record other than the root is moved out of the
\* list into the empty slot of its parent, the root stays and empties the stack
AttachesOnce ==
    LET frame == TopFrame(de_stack)
        rec == de_nodes[frame[1] + 1]
    IN  /\ Len(de_stack') = Len(de_stack) - 1
        /\ de_stack' = SubSeq(de_stack, 1, Len(de_stack) - 1)
        /\ rec.node # <<>>
        /\ \A s \in Octants :
              rec.idx[s] # 0 =>
                  /\ rec.node[1].children[s] # <<>>
                  /\ de_nodes[rec.idx[s] + 1].node = <<>>
        /\ IF frame[1] # 0
           THEN /\ de_nodes[frame[2] + 1].node[1].children[frame[3]] = <<>>
                /\ de_nodes'[frame[2] + 1].node[1].children[frame[3]] = rec.node
                /\ de_nodes'[frame[1] + 1].node = <<>>
                /\ \A k \in 1..Len(de_nodes) :
                      k \notin {frame[1] + 1, frame[2] + 1} => de_nodes'[k] = de_nodes[k]
           ELSE /\ de_stack' = <<>>
                /\ de_nodes' = de_nodes

\* the return: the stack is empty, every record but the root has been moved
\* out of the list, and the root returned holds the whole tree
ReturnsRootLast ==
    /\ de_stack = <<>>
    /\ \A k \in 2..Len(de_nodes) : de_nodes[k].node = <<>>
    /\ de_result' = de_nodes[1].node
    /\ ToRecords(Serialize(de_result'[1])) = de_input

\* C23: on a list that Node::serialize wrote, the loop of Node::deserialize
\* comes to an empty stack and returns; each iteration either pushes a record
\* that was not pushed or attached before, or attaches a record, whose own
\* children are all attached, to its parent exactly once; the root is returned
\* last, with every other record moved into it.
C23_RebuildTerminates ==
    /\ (de_pc = "loop") ~> (de_pc = "done" /\ de_stack = <<>>)
    /\ [][/\ de_pc' # "panic"
          /\ (de_pc = "loop" /\ de_pc' = "loop") => (PushesOnce \/ AttachesOnce)
          /\ (de_pc = "loop" /\ de_pc' = "done") => ReturnsRootLast]_vars

\* the list of a root with three internal children (28 records) has been
\* rebuilt and returned
C23_Witness ==
    /\ de_pc = "done"
    /\ de_stack = <<>>
    /\ Len(de_input) = 28
    /\ de_result # <<>>
    /\ Cardinality(Present(de_result[1])) = 3

\* all 8 slots hold a Leaf child, and the 8 values are v
AllLeavesOf(self, v) ==
    \A i \in Octants : self.children[i] # <<>> /\ self.children[i][1].ty = Leaf(v)

\* what the claim says Node::simplify returns and leaves for a node
SingleLevelSimplify(self, r) ==
    IF \E v \in Values : AllLeavesOf(self, v)
    THEN /\ r.ret
         /\ \E v \in Values :
               /\ AllLeavesOf(self, v)
               /\ r.node = [self EXCEPT !.ty = Leaf(v), !.children = NoChildren]
    ELSE /\ ~r.ret
         /\ r.node = self

\* C24: Node::simplify, on every node of every tree the octree holds, returns
\* true exactly when all 8 slots hold Leaf children of one value, and then
\* leaves the node a Leaf of that value without children; in every other case
\* it returns false and leaves the node and its children unchanged. On a
\* simplify() call on a root whose 8 children are all Leaf, that is the
\* result of the call.
C24_SingleLevelSimplify ==
    /\ [](status = "ok" =>
             \A n \in SubNodes(root) : SingleLevelSimplify(n, Simplify(n)))
    /\ [][(last'.op = "simplify" /\ AllLeafChildren(root)) =>
             SingleLevelSimplify(root, [ret |-> last'.ret = <<"true">>, node |-> root'])]_vars

\* Node::simplify has merged a root of dimension 4: the insert, made with
\* auto_simplify on, left a root Leaf without children at the lower level of
\* detail, where every insert inside the root splits it
C24_Witness ==
    /\ status = "ok"
    /\ last.op = "insert"
    /\ last.ret = <<"Ok">>
    /\ auto_simplify
    /\ dimension = 4
    /\ min_dimension = 2
    /\ IsLeaf(root)
    /\ root.children = NoChildren

=============================================================================
